---- MODULE Spec2Model ----
(***************************************************************************)
(* Model of src/api_server.py: the in-memory job registry `jobs`, the      *)
(* request handlers and the background coroutine run_crew_job.             *)
(*                                                                         *)
(* All handlers and run_crew_job are `async def` bodies without a single   *)
(* `await`, so each of them occupies the event loop from its first to its  *)
(* last statement.  The variable `loop` holds the job id of the            *)
(* run_crew_job that is currently between its first and last statement;    *)
(* handlers and other background tasks can only step while it is IDLE.     *)
(* run_crew_job is modelled statement by statement (actions L76 .. L98,    *)
(* named after the source lines) so that an exception at each statement    *)
(* is a separate outcome.                                                  *)
(***************************************************************************)
EXTENDS Integers, Sequences, FiniteSets, TLC

\* ---------------------------------------------------------------- bounds
MaxJobs == 2

\* ------------------------------------------------------------- constants
NULL == "<None>"
IDLE == "<idle>"
MISSING == "missing-123"

Digits == <<"0", "1", "2", "3", "4", "5", "6", "7", "8", "9">>

RECURSIVE NatStr(_)
NatStr(n) == IF n < 10 THEN Digits[n + 1]
             ELSE NatStr(n \div 10) \o Digits[(n % 10) + 1]

\* str(uuid.uuid4()): the identifiers the process can draw
JobIds == {"job-" \o NatStr(n) : n \in 1..MaxJobs}

\* ids a client can put in a path: every issued-able id and an unknown one
RequestIds == JobIds \cup {MISSING}

\* datetime.now().isoformat(): no statement of the program branches on a
\* timestamp or compares two of them, so every read yields the same instant
Now == "2026-01-01T00:00:00"

\* crew_input.inputs
Inputs == {"topic-x"}

\* values crew.kickoff can return: an opaque object with its raw text, and
\* whether its __str__ returns
Results == {[raw |-> "out-a", printable |-> TRUE],
            [raw |-> "out-b", printable |-> FALSE]}

NoResult == [raw |-> "", printable |-> TRUE]
NoExc == [type |-> "none", text |-> ""]

\* the exceptions the body of run_crew_job can see
KeyError(k) == [type |-> "KeyError", text |-> "'" \o k \o "'"]
ImportError == [type |-> "ImportError", text |-> "Could not load CrewAI crew module"]
InitError == [type |-> "CrewInitError", text |-> "crew class failed"]
CrewError == [type |-> "CrewBuildError", text |-> "crew() failed"]
KickoffError == [type |-> "WorkloadError", text |-> "kickoff failed"]
StrError == [type |-> "TypeError", text |-> "__str__ returned non-string"]

\* str(e)
StrExc(e) == e.text

\* str(result): [ok, val] or [ok, exc]
StrResult(r) == IF r.printable THEN [ok |-> TRUE, val |-> r.raw, exc |-> NoExc]
                ELSE [ok |-> FALSE, val |-> NULL, exc |-> StrError]

VARIABLES
    jobs,      \* the dict `jobs`: job id -> record
    order,     \* insertion order of the keys of `jobs`
    issued,    \* ids uuid4 has returned so far
    pc,        \* per id: position of its run_crew_job
    inputs,    \* per id: the inputs argument of the scheduled task
    result,    \* per id: local `result` of run_crew_job
    exc,       \* per id: local `e` of run_crew_job
    loop,      \* the run_crew_job occupying the event loop, or IDLE
    resp,      \* the response a request handler has just returned, until
               \* it is handed to the client (NoResp otherwise)
    deleted,   \* ids for which delete_job has answered 200
    kicks,     \* per id: calls of crew.kickoff made by its run_crew_job
    tasks,     \* per id: background tasks added by run_crew for it
    submitted, \* the ids returned by run_crew, in the order of the calls
    pollable   \* ids whose record had status running in a state in which
               \* the event loop was free to serve a request

vars == <<jobs, order, issued, pc, inputs, result, exc, loop, resp, deleted,
          kicks, tasks, submitted, pollable>>

Terminal == {"completed", "failed"}
Statuses == {"pending", "running"} \cup Terminal

NoResp == [op |-> "none", id |-> NULL, code |-> 0, detail |-> NULL, body |-> <<>>]

HTTPException(op, id, code, detail) ==
    [op |-> op, id |-> id, code |-> code, detail |-> detail, body |-> <<>>]

Ok(op, id, body) ==
    [op |-> op, id |-> id, code |-> 200, detail |-> NULL, body |-> body]

Init ==
    /\ jobs = <<>>
    /\ order = <<>>
    /\ issued = {}
    /\ pc = [i \in JobIds |-> "none"]
    /\ inputs = [i \in JobIds |-> NULL]
    /\ result = [i \in JobIds |-> NoResult]
    /\ exc = [i \in JobIds |-> NoExc]
    /\ loop = IDLE
    /\ resp = NoResp
    /\ deleted = {}
    /\ kicks = [i \in JobIds |-> 0]
    /\ tasks = [i \in JobIds |-> 0]
    /\ submitted = <<>>
    /\ pollable = {}

\* ------------------------------------------------------- dict primitives
HasKey(js, k) == k \in DOMAIN js

\* variant of SetItem: the record is never stored
SetItem_Dropped(js, k, rec) == js

\* jobs[k] = rec
SetItem(js, k, rec) == [x \in (DOMAIN js) \cup {k} |-> IF x = k THEN rec ELSE js[x]]

\* variant of SetField: the field is written in every record
SetField_AllKeys(js, k, f, v) == [x \in DOMAIN js |-> [js[x] EXCEPT ![f] = v]]

\* jobs[k][f] = v   (only evaluated when k is a key; otherwise KeyError)
SetField(js, k, f, v) == [js EXCEPT ![k][f] = v]

\* variant of DelItem: the whole dict is emptied
DelItem_Clear(js, k) == <<>>

\* del jobs[k]
DelItem(js, k) == [x \in (DOMAIN js) \ {k} |-> js[x]]

RECURSIVE Remove(_, _)
Remove(s, k) == IF s = <<>> THEN <<>>
                ELSE IF Head(s) = k THEN Remove(Tail(s), k)
                ELSE <<Head(s)>> \o Remove(Tail(s), k)

\* variant of Uuid4: a draw may repeat an earlier one
Uuid4_Reuse(used) == JobIds

\* uuid.uuid4(): a draw that does not repeat an earlier draw
Uuid4(used) == JobIds \ used

NewRecord(id) ==
    [job_id |-> id, status |-> "pending", created_at |-> Now,
     completed_at |-> NULL, result |-> NULL, error |-> NULL]

\* record the ids a get_job_status served in the new state would report
\* as running (a request is served only while the event loop is free)
Observe ==
    pollable' = pollable \cup
        {j \in DOMAIN jobs' : loop' = IDLE /\ jobs'[j].status = "running"}

\* --------------------------------------------------------------- handlers
run_crew(inp) ==
    /\ loop = IDLE /\ resp = NoResp
    /\ \E id \in Uuid4(issued) :
        /\ jobs' = SetItem(jobs, id, NewRecord(id))
        /\ order' = IF HasKey(jobs, id) THEN order ELSE Append(order, id)
        /\ issued' = issued \cup {id}
        /\ pc' = [pc EXCEPT ![id] = "scheduled"]
        /\ inputs' = [inputs EXCEPT ![id] = inp]
        /\ tasks' = [tasks EXCEPT ![id] = @ + 1]
        /\ submitted' = Append(submitted, id)
        /\ resp' = Ok("run_crew", id, [job_id |-> id, status |-> "started"])
    /\ UNCHANGED <<result, exc, loop, deleted, kicks>>
    /\ Observe

GetJobStatus(js, id) ==
    IF ~HasKey(js, id) THEN HTTPException("get_job_status", id, 404, "Job not found")
    ELSE Ok("get_job_status", id, js[id])

get_job_status(id) ==
    /\ loop = IDLE /\ resp = NoResp
    /\ resp' = GetJobStatus(jobs, id)
    /\ UNCHANGED <<jobs, order, issued, pc, inputs, result, exc, loop, deleted>>
    /\ UNCHANGED <<kicks, tasks, submitted>>
    /\ Observe

\* variant of GetJobResult: the failed branch is missing
GetJobResult_NoFailedBranch(js, id) ==
    IF ~HasKey(js, id) THEN HTTPException("get_job_result", id, 404, "Job not found")
    ELSE IF js[id].status = "pending" \/ js[id].status = "running"
         THEN HTTPException("get_job_result", id, 202, "Job still running")
    ELSE Ok("get_job_result", id,
            [job_id |-> id, status |-> js[id].status, result |-> js[id].result,
             completed_at |-> js[id].completed_at])

GetJobResult(js, id) ==
    IF ~HasKey(js, id) THEN HTTPException("get_job_result", id, 404, "Job not found")
    ELSE IF js[id].status = "pending" \/ js[id].status = "running"
         THEN HTTPException("get_job_result", id, 202, "Job still running")
    ELSE IF js[id].status = "failed"
         THEN HTTPException("get_job_result", id, 500, "Job failed: " \o js[id].error)
    ELSE Ok("get_job_result", id,
            [job_id |-> id, status |-> js[id].status, result |-> js[id].result,
             completed_at |-> js[id].completed_at])

get_job_result(id) ==
    /\ loop = IDLE /\ resp = NoResp
    /\ resp' = GetJobResult(jobs, id)
    /\ UNCHANGED <<jobs, order, issued, pc, inputs, result, exc, loop, deleted>>
    /\ UNCHANGED <<kicks, tasks, submitted>>
    /\ Observe

delete_job(id) ==
    /\ loop = IDLE /\ resp = NoResp
    /\ IF ~HasKey(jobs, id)
       THEN /\ resp' = HTTPException("delete_job", id, 404, "Job not found")
            /\ UNCHANGED <<jobs, order, deleted>>
       ELSE /\ jobs' = DelItem(jobs, id)
            /\ order' = Remove(order, id)
            /\ deleted' = deleted \cup {id}
            /\ resp' = Ok("delete_job", id, [message |-> "Job deleted successfully"])
    /\ UNCHANGED <<issued, pc, inputs, result, exc, loop>>
    /\ UNCHANGED <<kicks, tasks, submitted>>
    /\ Observe

\* get_crew_class() called from a handler: the class, or ImportError
GetCrewClass == {[ok |-> TRUE, name |-> "MarketingPostsCrew", exc |-> NoExc],
                 [ok |-> FALSE, name |-> NULL, exc |-> ImportError]}

\* variant of HealthCheck: a load failure is answered with a 500
HealthCheck_Raises(o) ==
    IF o.ok
    THEN Ok("health_check", NULL,
            [status |-> "healthy", timestamp |-> Now, crew_loaded |-> TRUE,
             crew_class |-> o.name])
    ELSE HTTPException("health_check", NULL, 500, StrExc(o.exc))

\* the body of health_check for an outcome o of get_crew_class()
HealthCheck(o) ==
    IF o.ok
    THEN Ok("health_check", NULL,
            [status |-> "healthy", timestamp |-> Now, crew_loaded |-> TRUE,
             crew_class |-> o.name])
    ELSE Ok("health_check", NULL,
            [status |-> "unhealthy", timestamp |-> Now, error |-> StrExc(o.exc),
             crew_loaded |-> FALSE])

health_check ==
    /\ loop = IDLE /\ resp = NoResp
    /\ \E o \in GetCrewClass : resp' = HealthCheck(o)
    /\ UNCHANGED <<jobs, order, issued, pc, inputs, result, exc, loop, deleted>>
    /\ UNCHANGED <<kicks, tasks, submitted>>
    /\ Observe

\* variant of ListJobs: the values come out last-inserted first
ListJobs_Reversed(js, ord) == [i \in 1..Len(ord) |-> js[ord[Len(ord) + 1 - i]]]

\* list(jobs.values()): the records in the insertion order of their keys
ListJobs(js, ord) == [i \in 1..Len(ord) |-> js[ord[i]]]

list_jobs ==
    /\ loop = IDLE /\ resp = NoResp
    /\ resp' = Ok("list_jobs", NULL, [jobs |-> ListJobs(jobs, order)])
    /\ UNCHANGED <<jobs, order, issued, pc, inputs, result, exc, loop, deleted>>
    /\ UNCHANGED <<kicks, tasks, submitted>>
    /\ Observe

\* the exceptions the try block of run_crew_sync can catch before str(result)
SyncErrors == {ImportError, InitError, CrewError, KickoffError}

SyncFailed(e) ==
    HTTPException("run_crew_sync", NULL, 500, "Crew execution failed: " \o StrExc(e))

\* the answer of run_crew_sync when crew.kickoff returned r
SyncReturned(r) ==
    IF StrResult(r).ok
    THEN Ok("run_crew_sync", NULL,
            [status |-> "completed", result |-> StrResult(r).val, timestamp |-> Now])
    ELSE SyncFailed(StrResult(r).exc)

\* variant of run_crew_sync: the run is also recorded in the registry
run_crew_sync_Recorded(inp) ==
    /\ loop = IDLE /\ resp = NoResp
    /\ \/ \E e \in SyncErrors : resp' = SyncFailed(e)
       \/ \E r \in Results : resp' = SyncReturned(r)
    /\ jobs' = SetItem(jobs, "sync", [NewRecord("sync") EXCEPT !.status = "completed"])
    /\ order' = IF HasKey(jobs, "sync") THEN order ELSE Append(order, "sync")
    /\ UNCHANGED <<issued, pc, inputs, result, exc, loop, deleted>>
    /\ UNCHANGED <<kicks, tasks, submitted>>
    /\ Observe

run_crew_sync(inp) ==
    /\ loop = IDLE /\ resp = NoResp
    /\ \/ \E e \in SyncErrors : resp' = SyncFailed(e)
       \/ \E r \in Results : resp' = SyncReturned(r)
    /\ UNCHANGED <<jobs, order, issued, pc, inputs, result, exc, loop, deleted>>
    /\ UNCHANGED <<kicks, tasks, submitted>>
    /\ Observe


\* the response returned by a handler goes out to the client
Respond ==
    /\ resp # NoResp
    /\ resp' = NoResp
    /\ UNCHANGED <<jobs, order, issued, pc, inputs, result, exc, loop, deleted>>
    /\ UNCHANGED <<kicks, tasks, submitted>>
    /\ Observe

\* ---------------------------------------------------------- run_crew_job
\* positions: "scheduled" (added by add_task, not started), "L76" .. "L98"
\* (about to execute that line), "done" (returned), "raised" (an exception
\* left the coroutine)

\* what no statement of run_crew_job touches
FrameBase ==
    /\ resp' = NoResp
    /\ UNCHANGED <<order, issued, inputs, deleted, tasks, submitted>>
    /\ Observe

\* ... and every statement but the kickoff call
Frame == FrameBase /\ UNCHANGED kicks

\* the background task is started once the loop is free
StartTask(id) ==
    /\ loop = IDLE
    /\ pc[id] = "scheduled"
    /\ loop' = id
    /\ pc' = [pc EXCEPT ![id] = "L76"]
    /\ UNCHANGED <<jobs, result, exc>>
    /\ Frame

\* control transfer to the except block with e bound
Except(id, e) ==
    /\ pc' = [pc EXCEPT ![id] = "L95"]
    /\ exc' = [exc EXCEPT ![id] = e]

\* variant of L76: a missing record is created instead of raising KeyError
L76_Setdefault(id) ==
    /\ loop = id /\ pc[id] = "L76"
    /\ jobs' = IF HasKey(jobs, id) THEN SetField(jobs, id, "status", "running")
               ELSE SetItem(jobs, id, [NewRecord(id) EXCEPT !.status = "running"])
    /\ pc' = [pc EXCEPT ![id] = "L80"]
    /\ UNCHANGED <<exc, result, loop>>
    /\ Frame

\* jobs[job_id]["status"] = "running"
L76(id) ==
    /\ loop = id /\ pc[id] = "L76"
    /\ IF HasKey(jobs, id)
       THEN /\ jobs' = SetField(jobs, id, "status", "running")
            /\ pc' = [pc EXCEPT ![id] = "L80"]
            /\ UNCHANGED exc
       ELSE /\ Except(id, KeyError(id))
            /\ UNCHANGED jobs
    /\ UNCHANGED <<result, loop>>
    /\ Frame

\* crew_class = get_crew_class()
L80(id) ==
    /\ loop = id /\ pc[id] = "L80"
    /\ \/ pc' = [pc EXCEPT ![id] = "L81"] /\ UNCHANGED exc
       \/ Except(id, ImportError)
    /\ UNCHANGED <<jobs, result, loop>>
    /\ Frame

\* crew_instance = crew_class()
L81(id) ==
    /\ loop = id /\ pc[id] = "L81"
    /\ \/ pc' = [pc EXCEPT ![id] = "L84"] /\ UNCHANGED exc
       \/ Except(id, InitError)
    /\ UNCHANGED <<jobs, result, loop>>
    /\ Frame

\* crew = crew_instance.crew()
L84(id) ==
    /\ loop = id /\ pc[id] = "L84"
    /\ \/ pc' = [pc EXCEPT ![id] = "L85"] /\ UNCHANGED exc
       \/ Except(id, CrewError)
    /\ UNCHANGED <<jobs, result, loop>>
    /\ Frame

\* variant of L85: a failed kickoff is tried a second time
L85_Retry(id) ==
    /\ loop = id /\ pc[id] = "L85"
    /\ \/ \E r \in Results :
            /\ result' = [result EXCEPT ![id] = r]
            /\ pc' = [pc EXCEPT ![id] = "L88"]
            /\ kicks' = [kicks EXCEPT ![id] = @ + 1]
            /\ UNCHANGED exc
       \/ /\ Except(id, KickoffError)
          /\ kicks' = [kicks EXCEPT ![id] = @ + 2]
          /\ UNCHANGED result
    /\ UNCHANGED <<jobs, loop>>
    /\ FrameBase

\* result = crew.kickoff(inputs=inputs)
L85(id) ==
    /\ loop = id /\ pc[id] = "L85"
    /\ kicks' = [kicks EXCEPT ![id] = @ + 1]
    /\ \/ \E r \in Results :
            /\ result' = [result EXCEPT ![id] = r]
            /\ pc' = [pc EXCEPT ![id] = "L88"]
            /\ UNCHANGED exc
       \/ Except(id, KickoffError) /\ UNCHANGED result
    /\ UNCHANGED <<jobs, loop>>
    /\ FrameBase

\* jobs[job_id]["status"] = "completed"
L88(id) ==
    /\ loop = id /\ pc[id] = "L88"
    /\ IF HasKey(jobs, id)
       THEN /\ jobs' = SetField(jobs, id, "status", "completed")
            /\ pc' = [pc EXCEPT ![id] = "L89"]
            /\ UNCHANGED exc
       ELSE /\ Except(id, KeyError(id))
            /\ UNCHANGED jobs
    /\ UNCHANGED <<result, loop>>
    /\ Frame

\* jobs[job_id]["result"] = str(result)
L89(id) ==
    /\ loop = id /\ pc[id] = "L89"
    /\ IF ~HasKey(jobs, id)
       THEN Except(id, KeyError(id)) /\ UNCHANGED jobs
       ELSE IF ~StrResult(result[id]).ok
       THEN Except(id, StrResult(result[id]).exc) /\ UNCHANGED jobs
       ELSE /\ jobs' = SetField(jobs, id, "result", StrResult(result[id]).val)
            /\ pc' = [pc EXCEPT ![id] = "L90"]
            /\ UNCHANGED exc
    /\ UNCHANGED <<result, loop>>
    /\ Frame

\* variant of L90: completed_at is not written
L90_NoStamp(id) ==
    /\ loop = id /\ pc[id] = "L90"
    /\ pc' = [pc EXCEPT ![id] = "done"]
    /\ loop' = IDLE
    /\ UNCHANGED <<jobs, exc, result>>
    /\ Frame

\* jobs[job_id]["completed_at"] = datetime.now().isoformat(); log; return
L90(id) ==
    /\ loop = id /\ pc[id] = "L90"
    /\ IF HasKey(jobs, id)
       THEN /\ jobs' = SetField(jobs, id, "completed_at", Now)
            /\ pc' = [pc EXCEPT ![id] = "done"]
            /\ loop' = IDLE
            /\ UNCHANGED exc
       ELSE /\ Except(id, KeyError(id))
            /\ UNCHANGED <<jobs, loop>>
    /\ UNCHANGED result
    /\ Frame

\* except Exception as e: logger.error(...)
L95(id) ==
    /\ loop = id /\ pc[id] = "L95"
    /\ pc' = [pc EXCEPT ![id] = "L96"]
    /\ UNCHANGED <<jobs, result, exc, loop>>
    /\ Frame

\* an exception raised inside the except block leaves run_crew_job
Escape(id, e) ==
    /\ pc' = [pc EXCEPT ![id] = "raised"]
    /\ exc' = [exc EXCEPT ![id] = e]
    /\ loop' = IDLE

\* variant of L96: the status is left as it was
L96_KeepStatus(id) ==
    /\ loop = id /\ pc[id] = "L96"
    /\ IF HasKey(jobs, id)
       THEN /\ pc' = [pc EXCEPT ![id] = "L97"]
            /\ UNCHANGED <<exc, loop>>
       ELSE Escape(id, KeyError(id))
    /\ UNCHANGED <<jobs, result>>
    /\ Frame

\* jobs[job_id]["status"] = "failed"
L96(id) ==
    /\ loop = id /\ pc[id] = "L96"
    /\ IF HasKey(jobs, id)
       THEN /\ jobs' = SetField(jobs, id, "status", "failed")
            /\ pc' = [pc EXCEPT ![id] = "L97"]
            /\ UNCHANGED <<exc, loop>>
       ELSE /\ Escape(id, KeyError(id))
            /\ UNCHANGED jobs
    /\ UNCHANGED result
    /\ Frame

\* variant of L97: the exception's type name is stored, not its text
L97_TypeName(id) ==
    /\ loop = id /\ pc[id] = "L97"
    /\ IF HasKey(jobs, id)
       THEN /\ jobs' = SetField(jobs, id, "error", exc[id].type)
            /\ pc' = [pc EXCEPT ![id] = "L98"]
            /\ UNCHANGED <<exc, loop>>
       ELSE /\ Escape(id, KeyError(id))
            /\ UNCHANGED jobs
    /\ UNCHANGED result
    /\ Frame

\* jobs[job_id]["error"] = str(e)
L97(id) ==
    /\ loop = id /\ pc[id] = "L97"
    /\ IF HasKey(jobs, id)
       THEN /\ jobs' = SetField(jobs, id, "error", StrExc(exc[id]))
            /\ pc' = [pc EXCEPT ![id] = "L98"]
            /\ UNCHANGED <<exc, loop>>
       ELSE /\ Escape(id, KeyError(id))
            /\ UNCHANGED jobs
    /\ UNCHANGED result
    /\ Frame

\* variant of L98: completed_at is not written
L98_NoStamp(id) ==
    /\ loop = id /\ pc[id] = "L98"
    /\ IF HasKey(jobs, id)
       THEN /\ pc' = [pc EXCEPT ![id] = "done"]
            /\ loop' = IDLE
            /\ UNCHANGED exc
       ELSE Escape(id, KeyError(id))
    /\ UNCHANGED <<jobs, result>>
    /\ Frame

\* jobs[job_id]["completed_at"] = datetime.now().isoformat()
L98(id) ==
    /\ loop = id /\ pc[id] = "L98"
    /\ IF HasKey(jobs, id)
       THEN /\ jobs' = SetField(jobs, id, "completed_at", Now)
            /\ pc' = [pc EXCEPT ![id] = "done"]
            /\ loop' = IDLE
            /\ UNCHANGED exc
       ELSE /\ Escape(id, KeyError(id))
            /\ UNCHANGED jobs
    /\ UNCHANGED result
    /\ Frame

run_crew_job(id) ==
    \/ L76(id) \/ L80(id) \/ L81(id) \/ L84(id) \/ L85(id)
    \/ L88(id) \/ L89(id) \/ L90(id)
    \/ L95(id) \/ L96(id) \/ L97(id) \/ L98(id)

Next ==
    \/ \E inp \in Inputs : run_crew(inp)
    \/ \E id \in RequestIds : get_job_status(id)
    \/ \E id \in RequestIds : get_job_result(id)
    \/ \E id \in RequestIds : delete_job(id)
    \/ health_check
    \/ list_jobs
    \/ \E inp \in Inputs : run_crew_sync(inp)
    \/ Respond
    \/ \E id \in JobIds : StartTask(id)
    \/ \E id \in JobIds : run_crew_job(id)

Spec == Init /\ [][Next]_vars

\* the scheduled background task is eventually run and every call it makes
\* returns or raises
LiveSpec == Spec /\ \A id \in JobIds : WF_vars(StartTask(id) \/ run_crew_job(id))

TypeOK ==
    /\ DOMAIN jobs \subseteq JobIds
    /\ \A id \in DOMAIN jobs : jobs[id].status \in Statuses
    /\ loop \in JobIds \cup {IDLE}

\* ------------------------------------------------------------ properties
IsTerminal(id) == HasKey(jobs, id) /\ jobs[id].status \in Terminal

\* the exceptions the try block of run_crew_job can hand to its except block
\* for a job whose record exists
BodyErrors == {ImportError, InitError, CrewError, KickoffError, StrError}

\* C1: once a record's status is completed or failed, no later step changes
\* that status.
C1_StatusMonotonic ==
    [][\A id \in JobIds :
         (IsTerminal(id) /\ HasKey(jobs', id)) => jobs'[id].status = jobs[id].status]_vars

\* C2 as stated: in every reachable state completed_at is null while the
\* status is pending or running and non-null while it is completed or failed.
C2_Original ==
    \A id \in DOMAIN jobs :
        /\ jobs[id].status \in {"pending", "running"} => jobs[id].completed_at = NULL
        /\ jobs[id].status \in Terminal => jobs[id].completed_at # NULL

\* C2 amended: completed_at is null in every state in which the status is
\* pending or running; it is non-null in every state in which the status is
\* completed or failed and the job's own run_crew_job is not in the middle of
\* its body (the only states a request handler can observe).
C2_CompletedAt ==
    \A id \in DOMAIN jobs :
        /\ jobs[id].status \in {"pending", "running"} => jobs[id].completed_at = NULL
        /\ (jobs[id].status \in Terminal /\ loop # id) => jobs[id].completed_at # NULL

C2_Witness ==
    \E id \in DOMAIN jobs :
        /\ loop = IDLE /\ pc[id] = "done"
        /\ jobs[id].status = "failed" /\ jobs[id].completed_at # NULL

\* C3 as stated: result and error are never both non-null, and whenever one
\* of them is non-null completed_at is already non-null.
C3_Original ==
    \A id \in DOMAIN jobs :
        /\ ~(jobs[id].result # NULL /\ jobs[id].error # NULL)
        /\ (jobs[id].result # NULL \/ jobs[id].error # NULL) => jobs[id].completed_at # NULL

\* C3 amended: result and error are never both non-null; whenever one of
\* them is non-null and the job's own run_crew_job is not in the middle of
\* its body, completed_at is non-null (result and error are written one
\* statement before completed_at).
C3_ResultXorError ==
    \A id \in DOMAIN jobs :
        /\ ~(jobs[id].result # NULL /\ jobs[id].error # NULL)
        /\ (loop # id /\ (jobs[id].result # NULL \/ jobs[id].error # NULL))
              => jobs[id].completed_at # NULL

C3_Witness ==
    \E id \in DOMAIN jobs :
        /\ loop = IDLE /\ pc[id] = "done"
        /\ jobs[id].result # NULL /\ jobs[id].error = NULL
        /\ jobs[id].completed_at # NULL

\* C4 as stated: when run_crew_job has finished and the record is still in
\* the registry, the record is completed with result = str(returned value)
\* and error null if loading and kickoff returned, and failed with error =
\* str(e) and result null if one of them raised; completed_at is set.
C4_Original ==
    \A id \in JobIds :
        (pc[id] = "done" /\ HasKey(jobs, id)) =>
            /\ jobs[id].completed_at # NULL
            /\ IF result[id] \in Results
               THEN /\ jobs[id].status = "completed"
                    /\ jobs[id].result = StrResult(result[id]).val
                    /\ jobs[id].error = NULL
               ELSE /\ jobs[id].status = "failed"
                    /\ jobs[id].error = StrExc(exc[id])
                    /\ jobs[id].result = NULL

\* C4 amended: ... completed with result = str(returned value) and error
\* null if loading, kickoff and the str() conversion of the returned value
\* all returned; failed with error = the text of the exception and result
\* null if any of them raised; completed_at is set in both cases.
C4_Outcome ==
    \A id \in JobIds :
        (pc[id] = "done" /\ HasKey(jobs, id)) =>
            /\ jobs[id].completed_at # NULL
            /\ IF result[id] \in Results /\ StrResult(result[id]).ok
               THEN /\ jobs[id].status = "completed"
                    /\ jobs[id].result = result[id].raw
                    /\ jobs[id].error = NULL
                    /\ exc[id] = NoExc
               ELSE /\ jobs[id].status = "failed"
                    /\ exc[id] \in BodyErrors
                    /\ jobs[id].error = exc[id].text
                    /\ jobs[id].result = NULL

C4_Witness ==
    \E id \in JobIds :
        /\ pc[id] = "done" /\ HasKey(jobs, id)
        /\ result[id] \in Results /\ exc[id] = StrError
        /\ jobs[id].status = "failed" /\ jobs[id].error = StrError.text

\* C5: no exception leaves run_crew_job, in any interleaving with the
\* request handlers.
C5_NoEscape ==
    \A id \in JobIds : pc[id] # "raised"

\* C6: every record in the registry is eventually deleted or reaches
\* completed/failed; once terminal it stays terminal while it exists, and a
\* get_job_result for it answers 200 with the result or 500 with the error,
\* not 202.
C6_EventuallyTerminal ==
    /\ \A id \in JobIds : HasKey(jobs, id) ~> (~HasKey(jobs, id) \/ IsTerminal(id))
    /\ [][\A id \in JobIds : (IsTerminal(id) /\ HasKey(jobs', id)) => jobs'[id].status \in Terminal]_vars
    /\ [](\A id \in JobIds :
            (resp.op = "get_job_result" /\ resp.id = id /\ IsTerminal(id)) =>
                \/ resp.code = 200 /\ resp.body.result = jobs[id].result /\ jobs[id].result # NULL
                \/ resp.code = 500 /\ jobs[id].error # NULL
                                   /\ resp.detail = "Job failed: " \o jobs[id].error)

C6_Witness ==
    /\ resp.op = "get_job_result" /\ resp.code = 500
    /\ IsTerminal(resp.id) /\ pc[resp.id] = "done"

\* C7: a get_job_result step leaves the registry unchanged and answers by
\* the registry alone: 404 without a record, 202 for pending/running, 500
\* with the error text for failed, 200 with result and completed_at for
\* completed (and 200 for nothing else).
C7_ResultByState ==
    [][resp'.op = "get_job_result" =>
         /\ jobs' = jobs /\ order' = order
         /\ resp'.id \in RequestIds
         /\ resp'.code \in {404, 202, 500, 200}
         /\ resp'.code = 404 <=> resp'.id \notin DOMAIN jobs
         /\ resp'.code = 202 <=>
               (resp'.id \in DOMAIN jobs /\ jobs[resp'.id].status \in {"pending", "running"})
         /\ resp'.code = 500 <=>
               (resp'.id \in DOMAIN jobs /\ jobs[resp'.id].status = "failed")
         /\ resp'.code = 500 => resp'.detail = "Job failed: " \o jobs[resp'.id].error
         /\ resp'.code = 200 <=>
               (resp'.id \in DOMAIN jobs /\ jobs[resp'.id].status = "completed")
         /\ resp'.code = 200 =>
               /\ resp'.body.result = jobs[resp'.id].result
               /\ resp'.body.completed_at = jobs[resp'.id].completed_at]_vars

C7_Witness ==
    /\ resp.op = "get_job_result" /\ resp.code = 200
    /\ resp.body.result = "out-a" /\ resp.body.completed_at = Now

\* C8: a job id returned by run_crew has its record in the registry unless
\* it was deleted, get_job_status for it does not answer 404 unless it was
\* deleted, the record is pending while its run_crew_job has not started, and
\* no record is completed or failed before its run_crew_job has started.
C8_VisibleAndPending ==
    /\ \A id \in issued :
        /\ id \notin deleted => HasKey(jobs, id)
        /\ (HasKey(jobs, id) /\ pc[id] = "scheduled") => jobs[id].status = "pending"
        /\ IsTerminal(id) => pc[id] \notin {"none", "scheduled"}
    /\ (resp.op = "run_crew") =>
          (HasKey(jobs, resp.id) /\ jobs[resp.id].status = "pending")
    /\ (resp.op = "get_job_status" /\ resp.id \in issued \ deleted) =>
          /\ resp.code = 200
          /\ pc[resp.id] = "scheduled" => resp.body.status = "pending"

C8_Witness ==
    /\ resp.op = "get_job_status" /\ resp.code = 200
    /\ pc[resp.id] = "scheduled" /\ resp.body.status = "pending"

\* C9: once delete_job has succeeded for an id, the id has no record in any
\* later state, whatever its run_crew_job does, and get_job_status and
\* get_job_result for it answer 404.
C9_DeletedStaysGone ==
    /\ \A id \in deleted : ~HasKey(jobs, id)
    /\ (resp.op \in {"get_job_status", "get_job_result"} /\ resp.id \in deleted) =>
          resp.code = 404

C9_Witness ==
    /\ resp.op = "get_job_status" /\ resp.code = 404
    /\ resp.id \in deleted /\ pc[resp.id] = "raised"

\* C10: run_crew returns an id never returned before, stores its record
\* under a key that was free and leaves every existing record as it was; a
\* step of run_crew_job for job a leaves the set of keys and every other
\* job's record as they were.
C10_Independent ==
    [][/\ resp'.op = "run_crew" =>
            /\ resp'.id \notin issued
            /\ ~HasKey(jobs, resp'.id)
            /\ \A j \in DOMAIN jobs : HasKey(jobs', j) /\ jobs'[j] = jobs[j]
       /\ \A a \in JobIds :
            (loop = a \/ loop' = a) =>
                /\ DOMAIN jobs' = DOMAIN jobs
                /\ \A j \in DOMAIN jobs \ {a} : jobs'[j] = jobs[j]]_vars

C10_Witness ==
    \E a, b \in DOMAIN jobs :
        /\ a # b /\ loop = a /\ pc[a] = "L97"
        /\ jobs[a].status = "failed" /\ jobs[b].status = "completed"

\* the exceptions that keep run_crew_job from reaching the kickoff call
LoadErrors == {ImportError, InitError, CrewError}

Finished(id) == pc[id] \in {"done", "raised"}

\* C11 as stated: every job's run_crew_job calls crew.kickoff exactly once
\* (never more, and once it has finished not zero times), and run_crew adds
\* exactly one background task per returned id.
C11_Original ==
    \A id \in JobIds :
        /\ kicks[id] <= 1
        /\ id \in issued => tasks[id] = 1
        /\ Finished(id) => kicks[id] = 1

\* C11 amended: crew.kickoff is called at most once per job (no retry) and
\* run_crew adds exactly one background task per returned id; a finished
\* run_crew_job has called it exactly once, except that it has not called
\* it at all when get_crew_class(), crew_class() or crew() raised or when the
\* record was deleted before the task started.
C11_KickoffAtMostOnce ==
    \A id \in JobIds :
        /\ kicks[id] <= 1
        /\ tasks[id] = (IF id \in issued THEN 1 ELSE 0)
        /\ Finished(id) =>
              (kicks[id] = 1 <=> exc[id] \notin LoadErrors \cup {KeyError(id)})

C11_Witness ==
    \E id \in JobIds :
        /\ pc[id] = "done" /\ exc[id] = KickoffError
        /\ kicks[id] = 1 /\ tasks[id] = 1

\* C12: every record that is completed or failed was, in some earlier state,
\* running while a get_job_status request could be served.
C12_RunningObservable ==
    \A id \in JobIds : IsTerminal(id) => id \in pollable

\* C13: deleting a job never keeps its workload from being called: a
\* finished run_crew_job of a deleted job has called crew.kickoff unless
\* loading the crew raised.
C13_DeleteDoesNotPrevent ==
    \A id \in deleted :
        (Finished(id) /\ kicks[id] = 0) => exc[id] \in LoadErrors

\* C14: while a job's crew.kickoff is in progress the request handlers can
\* take a step.
C14_HandlersLive ==
    (loop # IDLE /\ pc[loop] = "L85") =>
        /\ ENABLED (\E r \in RequestIds : get_job_status(r))
        /\ ENABLED (\E r \in RequestIds : get_job_result(r))
        /\ ENABLED (\E r \in RequestIds : delete_job(r))

\* C15: a job's run_crew_job does not have to finish before another job's
\* run_crew_job starts.
C15_ConcurrentRunners ==
    \A a, b \in JobIds :
        (a # b /\ loop = a /\ pc[b] = "scheduled") => ENABLED StartTask(b)

\* C16: a health_check step answers 200 in both cases, healthy with
\* crew_loaded true when the crew class was loaded and unhealthy with
\* crew_loaded false and the error text when loading raised, and leaves the
\* registry unchanged.
C16_HealthNeverFails ==
    [][resp'.op = "health_check" =>
         /\ jobs' = jobs /\ order' = order
         /\ resp'.code = 200
         /\ IF "crew_class" \in DOMAIN resp'.body
            THEN /\ resp'.body.status = "healthy"
                 /\ resp'.body.crew_loaded = TRUE
                 /\ "error" \notin DOMAIN resp'.body
            ELSE /\ resp'.body.status = "unhealthy"
                 /\ resp'.body.crew_loaded = FALSE
                 /\ resp'.body.error = ImportError.text]_vars

C16_Witness ==
    /\ resp.op = "health_check" /\ resp.code = 200
    /\ resp.body.status = "unhealthy" /\ resp.body.crew_loaded = FALSE
    /\ jobs # <<>>

\* C17: delete_job and get_job_status for an id without a record answer 404
\* and leave the registry unchanged; delete_job for an id with a record
\* answers 200, removes that record and leaves every other record unchanged.
C17_NotFoundAndDelete ==
    [][/\ resp'.op = "get_job_status" =>
            /\ jobs' = jobs /\ order' = order
            /\ resp'.id \notin DOMAIN jobs => resp'.code = 404
       /\ resp'.op = "delete_job" =>
            IF resp'.id \notin DOMAIN jobs
            THEN resp'.code = 404 /\ jobs' = jobs /\ order' = order
            ELSE /\ resp'.code = 200
                 /\ DOMAIN jobs' = DOMAIN jobs \ {resp'.id}
                 /\ \A j \in DOMAIN jobs' : jobs'[j] = jobs[j]]_vars

C17_Witness ==
    /\ resp.op = "delete_job" /\ resp.code = 200
    /\ resp.id \notin DOMAIN jobs
    /\ \E j \in DOMAIN jobs : jobs[j].status = "completed"

\* the submitted ids that were not deleted, in submission order
Live == SelectSeq(submitted, LAMBDA i : i \notin deleted)

\* C18: list_jobs returns the records of the submitted and not deleted jobs,
\* each once, in the order of their submission.
C18_ListInOrder ==
    resp.op = "list_jobs" =>
        /\ resp.code = 200
        /\ Len(resp.body.jobs) = Len(Live)
        /\ \A k \in 1..Len(Live) :
              /\ resp.body.jobs[k].job_id = Live[k]
              /\ resp.body.jobs[k] = jobs[Live[k]]
        /\ \A k, l \in 1..Len(resp.body.jobs) :
              resp.body.jobs[k].job_id = resp.body.jobs[l].job_id => k = l

C18_Witness ==
    /\ resp.op = "list_jobs"
    /\ Len(resp.body.jobs) = 2
    /\ resp.body.jobs[1].status = "failed"
    /\ resp.body.jobs[2].status = "pending"

\* C19: a run_crew_sync step answers 200 with status completed and the
\* string of the result, or 500 with the error text, and changes nothing a
\* job request can see: no record, no key, no background task.
C19_SyncLeavesRegistry ==
    [][resp'.op = "run_crew_sync" =>
         /\ jobs' = jobs /\ order' = order
         /\ pc' = pc /\ tasks' = tasks /\ issued' = issued
         /\ \A id \in RequestIds :
               /\ GetJobStatus(jobs', id) = GetJobStatus(jobs, id)
               /\ GetJobResult(jobs', id) = GetJobResult(jobs, id)
         /\ ListJobs(jobs', order') = ListJobs(jobs, order)
         /\ \/ /\ resp'.code = 200
               /\ resp'.body.status = "completed"
               /\ \E r \in Results : r.printable /\ resp'.body.result = r.raw
            \/ /\ resp'.code = 500
               /\ \E e \in SyncErrors \cup {StrError} :
                     resp'.detail = "Crew execution failed: " \o e.text]_vars

C19_Witness ==
    /\ resp.op = "run_crew_sync" /\ resp.code = 500
    /\ resp.detail = "Crew execution failed: " \o KickoffError.text
    /\ jobs # <<>>

====
